---- MODULE Spec2Model ----
(***************************************************************************)
(* Model of the model-integration layer of OpenGov-FoodSafety:             *)
(*   services/agent_service.py   AgentService (run_analysis and its paths) *)
(*   services/ollama_service.py  OllamaService (_request and its callers)  *)
(*   core/config.py              Settings, get_settings                    *)
(*   cli.py                      the agent and llm commands                *)
(* One service call is in progress at a time (spec section 5); the remote  *)
(* endpoints are the environment and choose the outcome of every request.  *)
(***************************************************************************)
EXTENDS Integers, Sequences, FiniteSets, TLC

VARIABLES
    env,             \* os.environ: the variables Settings reads
    settings,        \* the Settings instance cached by get_settings
    openai_client,   \* AgentService.openai_client is not None
    pc,              \* position of the call in progress
    call,            \* the call in progress: op, prompt, model, provider
    attempt_number,  \* tenacity retry_state.attempt_number of _request
    log,             \* network requests issued by the call in progress
    waits,           \* seconds slept between attempts of _request
    request_outcome, \* how _request ended: response returned or exception
    result,          \* how the call ended: return value or exception
    command,         \* the CLI command in progress (None: a direct call)
    console,         \* what the CLI command has printed
    exit_code,       \* exit status of the CLI command (None: not exited)
    items,           \* the item table: the stored rows by primary key
    request,         \* the last request the items router received
    response,        \* the response to it
    crud_calls,      \* the crud.item calls made while handling it
    users,           \* the user table: the stored rows by primary key
    store,           \* the items table of the ItemStorage database file
    storage_call,    \* the last ItemStorage call
    storage_result,  \* how it ended: return value or exception
    menu_pc,         \* position of interactive_menu
    selection,       \* the selection read by the last prompt of the menu
    menu_console,    \* what the menu has printed
    menu_ran,        \* the menu actions that were called
    menu_status      \* exit status of the menu process (None: running)

\* The state of the services and of the CLI.
svcvars == <<env, settings, openai_client, pc, call, attempt_number, log, waits,
             request_outcome, result, command, console, exit_code>>

\* The state of the items API.
apivars == <<items, request, response, crud_calls>>

\* The user table of the relational store.
dbvars == <<users>>

\* The state of ItemStorage.
storevars == <<store, storage_call, storage_result>>

\* The state of the interactive menu.
menuvars == <<menu_pc, selection, menu_console, menu_ran, menu_status>>

vars == <<svcvars, apivars, dbvars, storevars, menuvars>>

----------------------------------------------------------------------------
(* Python dictionaries are functions on strings. *)

EmptyDict == [k \in {} |-> ""]

DictGet(d, k, default) == IF k \in DOMAIN d THEN d[k] ELSE default

\* dict.update(e): the keys of e overwrite those of d.
DictUpdate(d, e) == e @@ d

\* dict.setdefault(k, v): k is set only when d has no key k.
DictSetDefault(d, k, v) == IF k \in DOMAIN d THEN d ELSE d @@ (k :> v)

----------------------------------------------------------------------------
(* Inputs *)

None == "<None>"

Prompts == {"Evaluate hygiene compliance", "Check cold storage"}

Models == {"gpt-4", "llama2:7b"}

Providers == {"openai", "ollama", "mock", "azure"}

ApiKeys == {None, "", "sk-test"}

BaseUrls == {None, "http://ollama.internal:11434/"}

\* Values of OLLAMA_BASE_URL in the environment.
EnvUrls == {"http://ollama.internal:11434"}

\* The environment: a variable that is not set has no entry.
Environments ==
    {k @@ u : k \in {EmptyDict} \cup {("OPENAI_API_KEY" :> v) : v \in ApiKeys \ {None}},
              u \in {EmptyDict} \cup {("OLLAMA_BASE_URL" :> v) : v \in EnvUrls}}

Messages == {"Hello", "Summarise visit 12"}

\* Exceptions AsyncOpenAI.chat.completions.create can raise.
OpenAIErrors == {"APIConnectionError", "AuthenticationError", "RateLimitError"}

\* Subclasses of httpx.HTTPError: transport errors and the status error
\* raised by response.raise_for_status().
TransportErrors == {"ConnectError", "ReadTimeout"}

StatusErrors == {"HTTPStatusError"}

HTTPErrors == TransportErrors \cup StatusErrors

\* Exceptions of an attempt that are not httpx.HTTPError.
OtherErrors == {"InvalidURL"}

\* Texts a remote model can answer with.
Texts == {"", "All clear", "[1, 2]", "42", "{}",
          "{\"score\": \"A\"}",
          "{\"provider\": \"remote\", \"model\": \"m0\"}",
          "{\"analysis\": \"ok\", \"provider\": \"mock\"}"}

----------------------------------------------------------------------------
(* Python values *)

\* Python truthiness of an Optional[str].
Truthy(s) == s # None /\ s # ""

\* json.loads on the texts above: the parsed value with its Python type, or
\* JSONDecodeError.
JsonLoads(t) ==
    CASE t = "{}" -> [type |-> "dict", items |-> EmptyDict]
      [] t = "{\"score\": \"A\"}" -> [type |-> "dict", items |-> ("score" :> "A")]
      [] t = "{\"provider\": \"remote\", \"model\": \"m0\"}" ->
            [type |-> "dict", items |-> ("provider" :> "remote") @@ ("model" :> "m0")]
      [] t = "{\"analysis\": \"ok\", \"provider\": \"mock\"}" ->
            [type |-> "dict", items |-> ("analysis" :> "ok") @@ ("provider" :> "mock")]
      [] t = "[1, 2]" -> [type |-> "list"]
      [] t = "42" -> [type |-> "int"]
      [] OTHER -> [type |-> "JSONDecodeError"]

Return(v) == [kind |-> "return", value |-> v]

Raise(e) == [kind |-> "raise", exc |-> e]

NoResult == [kind |-> "none"]

NoCall == [op |-> "none"]

----------------------------------------------------------------------------
(* core/config.py *)

DefaultOllamaBaseUrl == "http://localhost:11434"

\* Variant of the property without the default address.
ollama_base_url_no_default(s) == s.OLLAMA_BASE_URL

\* Settings.ollama_base_url
ollama_base_url(s) ==
    IF Truthy(s.OLLAMA_BASE_URL) THEN s.OLLAMA_BASE_URL ELSE DefaultOllamaBaseUrl

\* Settings.openai_api_key
openai_api_key(s) == s.OPENAI_API_KEY

\* str() of a parsed AnyHttpUrl without a path: the path "/" is added.
AnyHttpUrl(url) == url \o "/"

\* Settings(): the fields are read from the environment; a variable that is
\* not set leaves the default None.
Settings(e) ==
    [OPENAI_API_KEY |-> DictGet(e, "OPENAI_API_KEY", None),
     OLLAMA_BASE_URL |-> IF "OLLAMA_BASE_URL" \in DOMAIN e
                         THEN AnyHttpUrl(e["OLLAMA_BASE_URL"]) ELSE None]

\* The empty lru_cache of get_settings.
NotCached == [cached |-> FALSE]

\* Variant of get_settings without the cache.
get_settings_uncached(cache, e) == Settings(e)

\* get_settings under @lru_cache: the instance built by the first call is
\* returned by every later call.
get_settings(cache, e) == IF cache # NotCached THEN cache ELSE Settings(e)

----------------------------------------------------------------------------
(* services/agent_service.py *)

\* AgentService.__init__: a client is built only for a truthy key.
AgentServiceInit(s) == Truthy(openai_api_key(s))

\* Variant of _run_mock_analysis that does not echo the prompt.
run_mock_analysis_no_echo(prompt) ==
    [analysis |-> "Facility inspection summary with focus on critical food safety checkpoints",
     violations |-> <<"No critical violations detected">>,
     corrective_actions |-> <<"Continue temperature monitoring protocols">>,
     compliance_score |-> "0.85",
     provider |-> "mock",
     model |-> "mock-analysis",
     prompt |-> ""]

\* AgentService._run_mock_analysis
run_mock_analysis(prompt) ==
    [analysis |-> "Facility inspection summary with focus on critical food safety checkpoints",
     violations |-> <<"No critical violations detected">>,
     corrective_actions |-> <<"Continue temperature monitoring protocols">>,
     compliance_score |-> "0.85",
     provider |-> "mock",
     model |-> "mock-analysis",
     prompt |-> prompt]

\* Variant of the dispatch that does not look at the client.
Dispatch_ignores_client(provider, client) ==
    IF provider = "openai" THEN "openai"
    ELSE IF provider = "ollama" THEN "ollama"
    ELSE "mock"

\* The branch run_analysis takes.
Dispatch(provider, client) ==
    IF provider = "openai" /\ client THEN "openai"
    ELSE IF provider = "ollama" THEN "ollama"
    ELSE "mock"

\* Variant of the normalisation that parses every content, empty or not.
openai_normalise_always_parses(message, model) ==
    LET parsed == IF message = None THEN [type |-> "TypeError"] ELSE JsonLoads(message)
        data == IF parsed.type = "JSONDecodeError"
                THEN [type |-> "dict", items |-> ("analysis" :> message)]
                ELSE parsed
    IN  IF data.type = "dict"
        THEN Return(DictSetDefault(DictSetDefault(data.items, "provider", "openai"),
                                   "model", model))
        ELSE Raise(IF parsed.type = "TypeError" THEN "TypeError" ELSE "AttributeError")

\* _run_openai_analysis after create() has returned: message is the content
\* of the first choice (None when the reply has no content).
openai_normalise(message, model) ==
    LET parsed == IF Truthy(message) THEN JsonLoads(message)
                  ELSE [type |-> "dict", items |-> EmptyDict]
        data == IF parsed.type = "JSONDecodeError"
                THEN [type |-> "dict", items |-> ("analysis" :> message)]
                ELSE parsed
    IN  IF data.type = "dict"
        THEN Return(DictSetDefault(DictSetDefault(data.items, "provider", "openai"),
                                   "model", model))
        ELSE Raise("AttributeError")

\* Variant of the except clause that lets the exception out.
openai_on_exception_reraises(prompt, exc) == Raise(exc)

\* The except clause of _run_openai_analysis around create().
openai_on_exception(prompt, exc) == Return(run_mock_analysis(prompt))

\* Variant of the except clause that lets the exception out.
ollama_on_exception_reraises(prompt, exc) == Raise(exc)

\* The except clause of _run_ollama_analysis.
ollama_on_exception(prompt, exc) == Return(run_mock_analysis(prompt))

\* body.get("response", "") of _run_ollama_analysis (None: the body is not
\* JSON and response.json() raises).
raw_response(body) ==
    IF body.valid THEN DictGet(body.json, "response", "") ELSE None

\* _run_ollama_analysis after the POST returned a success status: body is the
\* response body, valid JSON or not.
ollama_normalise(body, model, prompt) ==
    IF ~body.valid THEN ollama_on_exception(prompt, "JSONDecodeError")
    ELSE LET parsed == JsonLoads(raw_response(body))
             data == IF parsed.type = "JSONDecodeError"
                     THEN [type |-> "dict", items |-> ("analysis" :> raw_response(body))]
                     ELSE parsed
         IN  IF data.type = "dict"
             THEN Return(DictUpdate(data.items,
                                    ("provider" :> "ollama") @@ ("model" :> model)))
             ELSE ollama_on_exception(prompt, "AttributeError")

\* The strings chat returns in place of a reply.
ChatUnavailable ==
    "AI chat is unavailable. Configure an OpenAI API key to enable this feature."

ChatFailed == "Unable to complete chat request."

\* Contents a chat completion can carry (None: no content).
ChatContents == {None, "", "Recheck the walk-in cooler."}

\* Variant of the except clause of chat that lets the exception out.
chat_on_exception_reraises(exc) == Raise(exc)

\* The except clause of chat.
chat_on_exception(exc) == Return(ChatFailed)

\* response.choices[0].message.content or ""
chat_reply(content) == IF Truthy(content) THEN content ELSE ""

\* Bodies the generate endpoint can answer with.
GenerateBodies ==
    {[valid |-> FALSE]} \cup {[valid |-> TRUE, json |-> EmptyDict]}
    \cup {[valid |-> TRUE, json |-> ("response" :> t)] : t \in Texts}

----------------------------------------------------------------------------
(* services/ollama_service.py *)

\* stop_after_attempt(3)
MaxAttempts == 3

\* wait_exponential(multiplier=1, min=1, max=10)
WaitMultiplier == 1

WaitMin == 1

WaitMax == 10

Min2(a, b) == IF a <= b THEN a ELSE b

Max2(a, b) == IF a >= b THEN a ELSE b

\* Variant of the retry predicate that retries transport errors only.
retry_if_transport_error(exc) == exc \in TransportErrors

\* Variant of the retry predicate that retries every exception.
retry_if_any_exception(exc) == TRUE

\* retry=retry_if_exception_type(httpx.HTTPError)
retry_if_exception_type(exc) == exc \in HTTPErrors

\* Variant of the stop condition that allows one attempt more.
stop_after_attempt_off_by_one(n) == n > MaxAttempts

\* stop=stop_after_attempt(3)
stop_after_attempt(n) == n >= MaxAttempts

\* Variant of the wait whose exponent is the attempt number itself.
wait_exponential_from_two(n) ==
    Max2(Max2(0, WaitMin), Min2(WaitMultiplier * 2 ^ n, WaitMax))

\* wait=wait_exponential(...): seconds slept after failed attempt n.
wait_exponential(n) ==
    Max2(Max2(0, WaitMin), Min2(WaitMultiplier * 2 ^ (n - 1), WaitMax))

\* What the retry policy (reraise=True) does with the exception of attempt n:
\* an exception that is not retried, or one met when the policy stops, is
\* raised to the caller of _request as it is.
retry_policy(exc, n) ==
    IF ~retry_if_exception_type(exc) THEN "raise"
    ELSE IF stop_after_attempt(n) THEN "raise"
    ELSE "retry"

\* Method and path each caller hands to _request.
request_line(op) ==
    CASE op = "check_connection" -> "GET /api/tags"
      [] op = "list_models" -> "GET /api/tags"
      [] op = "pull_model" -> "POST /api/pull"
      [] op = "run_model" -> "POST /api/generate"

RequestOps == {"check_connection", "list_models", "pull_model", "run_model"}

\* Bodies the tags and pull endpoints can answer with.
TagsBodies ==
    {[valid |-> FALSE], [valid |-> TRUE, json |-> EmptyDict],
     [valid |-> TRUE, json |-> ("models" :> <<"llama2:7b">>)]}

RunModelBodies ==
    {[valid |-> FALSE], [valid |-> TRUE, json |-> EmptyDict],
     [valid |-> TRUE, json |-> ("response" :> "All clear")]}

ResponseBodies(op) == IF op = "run_model" THEN RunModelBodies ELSE TagsBodies

\* What each caller of _request does with the response it returns.
caller_on_return(op, body) ==
    CASE op = "check_connection" -> Return(TRUE)
      [] op = "pull_model" -> Return(None)
      [] op = "list_models" ->
            IF body.valid THEN Return(DictGet(body.json, "models", <<>>))
            ELSE Raise("JSONDecodeError")
      [] op = "run_model" ->
            IF body.valid THEN Return(DictGet(body.json, "response", ""))
            ELSE Raise("JSONDecodeError")

\* Variant in which check_connection lets the exception out as well.
caller_on_raise_propagates(op, exc) == Raise(exc)

\* Variant in which list_models answers a failure with an empty list.
caller_on_raise_empty_list(op, exc) ==
    IF op = "check_connection" THEN Return(FALSE)
    ELSE IF op = "list_models" THEN Return(<<>>)
    ELSE Raise(exc)

\* What each caller of _request does with the exception it raises.
caller_on_raise(op, exc) ==
    IF op = "check_connection" THEN Return(FALSE) ELSE Raise(exc)

----------------------------------------------------------------------------
(* Bookkeeping of the requests of the call in progress *)

Pending == "pending"

\* A request req is sent to the service at base (None: the hosted API).
Send(l, req, base) ==
    Append(l, [req |-> req, base |-> base, res |-> Pending, text |-> None])

\* The request in flight (the last one sent) ends with res; text is the
\* generated text the analysis paths take from the reply (None when there
\* is none).
Settle(l, res, text) == [l EXCEPT ![Len(l)].res = res, ![Len(l)].text = text]

InFlight == Cardinality({i \in DOMAIN log : log[i].res = Pending})

----------------------------------------------------------------------------
(* cli.py *)

Commands == {"agent run", "agent chat", "llm list", "llm pull", "llm check"}

\* Whether "except Exception" catches exc: it catches the errors of the
\* services and typer.Exit (click.exceptions.Exit, a RuntimeError), but not
\* SystemExit.
except_Exception_catches(exc) == exc # "SystemExit"

\* str(exc) in the failure messages: a typer.Exit(code=1) has no arguments.
exc_str(exc) == IF exc = "Exit" THEN "" ELSE exc

Line(text) == [text |-> text, data |-> None]

DataLine(text, data) == [text |-> text, data |-> data]

\* What the try block of a command prints and how it ends, given how the
\* service call ended: [console, raised] with raised = None when the block
\* completes.
command_try(cmd, c, res) ==
    IF res.kind = "raise" THEN [console |-> <<>>, raised |-> res.exc]
    ELSE CASE cmd = "agent run" ->
                [console |-> <<Line("Analysis complete"), DataLine("json", res.value)>>,
                 raised |-> None]
           [] cmd = "agent chat" ->
                [console |-> <<Line("Assistant response"), Line(res.value)>>,
                 raised |-> None]
           [] cmd = "llm list" ->
                IF res.value = <<>>
                THEN [console |-> <<Line("No Ollama models available.")>>, raised |-> None]
                ELSE [console |-> <<DataLine("Ollama Models", res.value)>>, raised |-> None]
           [] cmd = "llm pull" ->
                [console |-> <<Line("Model " \o c.model \o " downloaded")>>, raised |-> None]
           [] cmd = "llm check" ->
                IF res.value
                THEN [console |-> <<Line("Ollama service reachable")>>, raised |-> None]
                ELSE [console |-> <<Line("Ollama service unavailable")>>, raised |-> "Exit"]

\* The message the except clause of each command prints before it exits.
failure_message(cmd) ==
    CASE cmd = "agent run" -> "Analysis failed: "
      [] cmd = "agent chat" -> "Chat failed: "
      [] cmd = "llm list" -> "Failed to list models: "
      [] cmd = "llm pull" -> "Model download failed: "
      [] cmd = "llm check" -> "Ollama check failed: "

\* A command from its try block to its exit: an exception of the block that
\* "except Exception" catches prints the failure message and exits with 1;
\* a typer.Exit that is not caught exits with its code 1.
command_outcome(cmd, c, res) ==
    LET t == command_try(cmd, c, res)
    IN  IF t.raised = None THEN [console |-> t.console, exit_code |-> 0]
        ELSE IF except_Exception_catches(t.raised)
        THEN [console |-> Append(t.console,
                                 Line(failure_message(cmd) \o exc_str(t.raised))),
              exit_code |-> 1]
        ELSE [console |-> t.console, exit_code |-> 1]

----------------------------------------------------------------------------
(* models, schemas: users and items *)

\* Largest primary key the item table hands out.
MaxItemId == 3

\* models.User rows: users 1 and 3 are active, user 2 has is_active = False.
Users ==
    (1 :> [id |-> 1, is_active |-> TRUE]) @@ (2 :> [id |-> 2, is_active |-> FALSE])
        @@ (3 :> [id |-> 3, is_active |-> TRUE])

\* models.ItemStatus.
ItemStatus == {"pending", "in_progress", "completed", "cancelled"}

\* schemas.ItemCreate bodies: title is required, description defaults to
\* None and status to ItemStatus.PENDING.
ItemCreates ==
    {[title |-> "Inspection A", description |-> "Routine inspection",
      status |-> "pending"]}

\* schemas.ItemUpdate bodies: the fields the client has set.
ItemUpdates == {EmptyDict, ("title" :> "Inspection B")}

\* The item table after create_all.
EmptyTable == [i \in {} |-> [id |-> i]]

\* The path parameter {id} of a request.
PathIds == 1..MaxItemId

\* Query parameters of GET /items.
Skips == {0, 1}

Limits == {1, 100}

----------------------------------------------------------------------------
(* crud.item: the queries the handlers of api/items.py run *)

\* The value of a query without a row (Python's None); it is falsy.
NoRow == [id |-> 0]

not_(item) == item.id = 0

crud_item_get(db, id) == IF id \in DOMAIN db THEN db[id] ELSE NoRow

crud_item_get_multi(db, skip, limit) ==
    LET rows  == SelectSeq([i \in 1..MaxItemId |-> i], LAMBDA i : i \in DOMAIN db)
        last  == IF skip + limit < Len(rows) THEN skip + limit ELSE Len(rows)
    IN  [k \in 1..(IF last > skip THEN last - skip ELSE 0) |-> db[rows[skip + k]]]

\* An integer primary key without a row takes the largest key plus one.
next_id(db) ==
    IF DOMAIN db = {} THEN 1
    ELSE (CHOOSE i \in DOMAIN db : \A j \in DOMAIN db : j <= i) + 1

crud_item_create_with_owner(db, obj_in, owner_id) ==
    LET row == [id |-> next_id(db), title |-> obj_in.title,
                description |-> obj_in.description, status |-> obj_in.status,
                owner_id |-> owner_id]
    IN  [db |-> db @@ (row.id :> row), item |-> row]

\* The fields set in obj_in are assigned to the row.
crud_item_update(db, db_obj, obj_in) ==
    LET row == [f \in DOMAIN db_obj |->
                    IF f \in DOMAIN obj_in THEN obj_in[f] ELSE db_obj[f]]
    IN  [db |-> [i \in DOMAIN db |-> IF i = db_obj.id THEN row ELSE db[i]],
         item |-> row]

crud_item_remove(db, id) ==
    [db |-> [i \in DOMAIN db \ {id} |-> db[i]], item |-> crud_item_get(db, id)]

----------------------------------------------------------------------------
(* api/deps.py and api/items.py *)

\* The Authorization header of a request: absent, a token that does not
\* validate, or the token of a user.
TokenSubject ==
    ("token-user-1" :> 1) @@ ("token-user-2" :> 2) @@ ("token-user-3" :> 3)

Credentials == {None, "token-invalid"} \cup DOMAIN TokenSubject

HTTPException(status_code, detail) ==
    [status_code |-> status_code, detail |-> detail, body |-> NoRow]

JSONResponse(body) == [status_code |-> 200, detail |-> None, body |-> body]

\* No exception was raised.
NoException == [status_code |-> 0, detail |-> None, body |-> NoRow]

\* deps.get_current_active_user: the user of the request, or the exception
\* that ends the request.
get_current_active_user(credentials) ==
    IF credentials = None
    THEN [user |-> 0, raised |-> HTTPException(401, "Not authenticated")]
    ELSE IF credentials \notin DOMAIN TokenSubject
    THEN [user |-> 0, raised |-> HTTPException(401, "Could not validate credentials")]
    ELSE IF ~Users[TokenSubject[credentials]].is_active
    THEN [user |-> 0, raised |-> HTTPException(400, "Inactive user")]
    ELSE [user |-> TokenSubject[credentials], raised |-> NoException]

\* The dependency has raised.
raises(dependency) == dependency.raised # NoException

\* The route declares current_user = Depends(dependency): the dependency runs
\* before the handler's body, and its exception is the response.
Depends(dependency) == dependency

NoRequest == [route |-> None]

NoResponse == [status_code |-> 0, detail |-> None, body |-> NoRow]

ItemRoutes == {"read_items", "create_item", "update_item", "read_item", "delete_item"}

----------------------------------------------------------------------------
(* core/database.py: DatabaseManager *)

\* crud.user.get_multi: the first limit rows of the user table.
crud_user_get_multi(db, limit) ==
    LET rows == SelectSeq([i \in 1..(Cardinality(DOMAIN db) + MaxItemId) |-> i],
                          LAMBDA i : i \in DOMAIN db)
    IN  [k \in 1..(IF limit < Len(rows) THEN limit ELSE Len(rows)) |-> db[rows[k]]]

\* crud.user.create: the new row takes the next primary key; is_active
\* defaults to True.
crud_user_create(db, obj_in) ==
    LET row == [id |-> next_id(db), email |-> obj_in.email,
                full_name |-> obj_in.full_name, is_superuser |-> obj_in.is_superuser,
                is_active |-> TRUE]
    IN  [db |-> db @@ (row.id :> row), user |-> row]

sample_users ==
    << [email |-> "inspector@opengovfood.com", full_name |-> "Inspector Example",
        is_superuser |-> FALSE],
       [email |-> "admin@opengovfood.com", full_name |-> "Administrator Example",
        is_superuser |-> TRUE] >>

sample_items ==
    << [title |-> "Weekly Inspection",
        description |-> "Routine inspection workflow for downtown facilities",
        status |-> "pending"],
       [title |-> "Temperature Compliance Review",
        description |-> "Audit hot-holding equipment compliance",
        status |-> "pending"],
       [title |-> "Consumer Complaint Investigation",
        description |-> "Review complaint queue and follow-up actions",
        status |-> "pending"] >>

RECURSIVE create_users(_, _, _)
\* The loop over sample_users: the tables after it and the users it created.
create_users(db, todo, created_users) ==
    IF todo = <<>> THEN [db |-> db, created_users |-> created_users]
    ELSE LET c == crud_user_create(db, Head(todo))
         IN  create_users(c.db, Tail(todo), Append(created_users, c.user))

RECURSIVE create_items(_, _, _)
\* The loop over sample_items.
create_items(db, todo, owner_id) ==
    IF todo = <<>> THEN db
    ELSE create_items(crud_item_create_with_owner(db, Head(todo), owner_id).db,
                      Tail(todo), owner_id)

\* Variant of seed_sample_data without the check for existing users.
seed_sample_data_unguarded(user_db, item_db) ==
    LET u == create_users(user_db, sample_users, <<>>)
    IN  [users |-> u.db,
         items |-> create_items(item_db, sample_items, u.created_users[1].id)]

\* DatabaseManager.seed_sample_data: the user and item tables after it.
seed_sample_data(user_db, item_db) ==
    LET existing_users == crud_user_get_multi(user_db, 1)
    IN  IF existing_users # <<>>
        THEN [users |-> user_db, items |-> item_db]
        ELSE LET u == create_users(user_db, sample_users, <<>>)
             IN  [users |-> u.db,
                  items |-> create_items(item_db, sample_items,
                                         u.created_users[1].id)]

\* DatabaseManager.initialize: drop_all empties the tables, create_all keeps
\* the rows of the tables that exist.
initialize(user_db, item_db, drop_existing) ==
    IF drop_existing THEN [users |-> EmptyTable, items |-> EmptyTable]
    ELSE [users |-> user_db, items |-> item_db]

\* Bodies of POST /users/open.
UserCreates ==
    {[email |-> "tester@example.com", full_name |-> "QA Tester", is_superuser |-> FALSE]}

----------------------------------------------------------------------------
(* storage/item_storage.py: ItemStorage over sqlite-utils *)

\* Largest id of a row in a database file ItemStorage is opened on.
MaxStoreId == 3

OwnerIds == {1, 2}

\* ItemRecord.to_row: the row create_item inserts.
to_row(record) ==
    [id |-> record.id, title |-> record.title, description |-> record.description,
     owner_id |-> record.owner_id, created_at |-> record.created_at,
     updated_at |-> record.updated_at]

\* The items tables a database file can hold when ItemStorage opens it.
StoredTables ==
    {[i \in S |-> to_row([id |-> i, title |-> "Inspection A",
                          description |-> "Routine inspection", owner_id |-> 1,
                          created_at |-> "utcnow", updated_at |-> "utcnow"])] :
        S \in SUBSET (1..MaxStoreId)}

\* The updates argument of update_item.
StorageUpdates == {("title" :> "Inspection B")}

\* The fields of schemas.Item without a default.
ItemRequired == {"id", "title", "owner_id", "status", "created_at", "updated_at"}

\* schemas.Item(**fields): validation fails when a required field is missing.
schemas_Item(fields) ==
    IF ItemRequired \subseteq DOMAIN fields THEN Return(fields)
    ELSE Raise("ValidationError")

\* ItemRecord.to_schema and ItemStorage._row_to_schema pass these fields.
SchemaFields == {"id", "title", "description", "owner_id"}

to_schema(record) == schemas_Item([f \in SchemaFields |-> record[f]])

row_to_schema(row) == schemas_Item([f \in SchemaFields |-> row[f]])

\* SELECT MAX(id) AS last_id FROM items: NULL on an empty table.
SelectMaxId(table) ==
    IF DOMAIN table = {} THEN [is_null |-> TRUE, last_id |-> 0]
    ELSE [is_null |-> FALSE,
          last_id |-> CHOOSE i \in DOMAIN table : \A j \in DOMAIN table : j <= i]

\* sqlite_utils.Database.query is a generator function: it returns a
\* generator of dicts; Database.execute returns a cursor.
Database_query(table) == [type |-> "generator", rows |-> <<SelectMaxId(table)>>]

\* obj.fetchone(): only a cursor has the method.
fetchone(obj) ==
    IF obj.type = "cursor" THEN Return(Head(obj.rows)) ELSE Raise("AttributeError")

\* ItemStorage._next_id
ItemStorage_next_id(table) ==
    LET row == fetchone(Database_query(table))
    IN  IF row.kind = "raise" THEN row
        ELSE IF ~row.value.is_null THEN Return(row.value.last_id + 1)
        ELSE Return(1)

\* sqlite_utils Table.get: NotFoundError when no row has the key.
Table_get(table, pk) ==
    IF pk \in DOMAIN table THEN Return(table[pk]) ELSE Raise("NotFoundError")

Table_insert(table, row) == table @@ (row.id :> row)

\* sqlite_utils Table.update and Table.delete look the row up first
\* (NotFoundError), change the table and return the Table object.
Table_update(table, pk, changes) ==
    IF pk \notin DOMAIN table THEN [table |-> table, result |-> Raise("NotFoundError")]
    ELSE [table |-> [i \in DOMAIN table |->
                        IF i = pk
                        THEN [f \in DOMAIN table[i] |->
                                 IF f \in DOMAIN changes THEN changes[f] ELSE table[i][f]]
                        ELSE table[i]],
          result |-> Return([type |-> "Table"])]

Table_delete(table, pk) ==
    IF pk \notin DOMAIN table THEN [table |-> table, result |-> Raise("NotFoundError")]
    ELSE [table |-> [i \in DOMAIN table \ {pk} |-> table[i]],
          result |-> Return([type |-> "Table"])]

\* value > 0: a Table object and an int are not ordered.
greater_than_zero(returned) ==
    IF returned.kind = "raise" THEN returned
    ELSE IF returned.value.type = "int" THEN Return(returned.value.value > 0)
    ELSE Raise("TypeError")

----------------------------------------------------------------------------
(* cli.py: interactive_menu *)

\* Largest number of times the menu is shown.
MaxMenuRounds == 3

\* Lines typed at the prompt "Select an option", as sequences of characters.
InputLines ==
    {<<>>, <<"1">>, <<"2">>, <<"3">>, <<"4">>, <<"5">>, <<" ", "3">>, <<"5", " ">>,
     <<"6">>, <<"0">>, <<"x">>, <<" ">>, <<"1", "2">>}

\* typer.prompt(text, default=default): an empty line gives the default.
typer_prompt(line, default) == IF line = <<>> THEN default ELSE line

RECURSIVE lstrip(_)
lstrip(str) == IF str # <<>> /\ Head(str) = " " THEN lstrip(Tail(str)) ELSE str

RECURSIVE rstrip(_)
rstrip(str) ==
    IF str # <<>> /\ str[Len(str)] = " " THEN rstrip(SubSeq(str, 1, Len(str) - 1))
    ELSE str

\* str.strip()
strip(str) == rstrip(lstrip(str))

menu_actions ==
    (<<"1">> :> "db_init") @@ (<<"2">> :> "db_seed") @@
    (<<"3">> :> "_menu_run_analysis") @@ (<<"4">> :> "status_overview") @@
    (<<"5">> :> "sys.exit")

\* menu_actions.get(selection)
menu_actions_get(key) == IF key \in DOMAIN menu_actions THEN menu_actions[key] ELSE None

MenuTable == "OpenGov Food Control Centre"

MenuInvalid == "Invalid selection; please choose a valid option."

MenuExit == "Exiting OpenGov Food control centre."

\* Variant of the loop body that leaves the loop on an invalid selection.
menu_branch_breaks_on_invalid(key) ==
    IF key = <<"5">> \/ menu_actions_get(key) = None THEN "exit" ELSE "call"

\* The branch the loop body takes for a selection.
menu_branch(key) ==
    IF menu_actions_get(key) = None THEN "continue"
    ELSE IF key = <<"5">> THEN "exit"
    ELSE "call"

\* The menu actions an exception can leave: db_init and db_seed re-raise the
\* errors of the database, agent_run raises typer.Exit; status_overview
\* catches the errors of its checks.
RaisingActions == {"db_init", "db_seed", "_menu_run_analysis"}

MenuErrors == {"Exit", "OperationalError"}

\* The number of times the menu table was printed.
TablesShown(printed) == Len(SelectSeq(printed, LAMBDA l : l = MenuTable))

----------------------------------------------------------------------------
(* State machine *)

Init ==
    /\ env \in Environments
    /\ settings = get_settings(NotCached, env)
    /\ openai_client = AgentServiceInit(settings)
    /\ pc = "idle"
    /\ call = NoCall
    /\ attempt_number = 0
    /\ log = <<>>
    /\ waits = <<>>
    /\ request_outcome = NoResult
    /\ result = NoResult
    /\ command = None
    /\ console = <<>>
    /\ exit_code = None
    /\ items = EmptyTable
    /\ request = NoRequest
    /\ response = NoResponse
    /\ crud_calls = <<>>
    /\ users = EmptyTable
    /\ store = EmptyTable
    /\ storage_call = NoCall
    /\ storage_result = NoResult
    /\ menu_pc = "closed"
    /\ selection = None
    /\ menu_console = <<>>
    /\ menu_ran = <<>>
    /\ menu_status = None

\* os.environ is changed between two calls (monkeypatch.setenv / delenv in
\* the tests, main() for its --config option).
setenv(e) ==
    /\ pc = "idle"
    /\ e # env
    /\ env' = e
    /\ UNCHANGED <<settings, openai_client, pc, call, attempt_number, log, waits,
                   request_outcome, result, command, console, exit_code>>
    /\ UNCHANGED <<apivars, dbvars, storevars, menuvars>>

\* AgentService.run_analysis of a service with the given client and settings,
\* up to its first await on the network, or to its return on the mock path.
run_analysis_start(prompt, model, provider, client, s) ==
    /\ pc = "idle"
    /\ call' = [op |-> "run_analysis", prompt |-> prompt, model |-> model,
                provider |-> provider]
    /\ LET branch == Dispatch(provider, client)
       IN  CASE branch = "openai" ->
                  IF ~client
                  THEN /\ result' = Raise("ValueError")
                       /\ pc' = "done"
                       /\ log' = log
                  ELSE /\ log' = Send(log, "openai.chat.completions.create", None)
                       /\ pc' = "openai_await"
                       /\ result' = result
             [] branch = "ollama" ->
                  IF ~Truthy(ollama_base_url(s))
                  THEN /\ result' = Raise("ValueError")
                       /\ pc' = "done"
                       /\ log' = log
                  ELSE /\ log' = Send(log, "POST /api/generate", ollama_base_url(s))
                       /\ pc' = "ollama_await"
                       /\ result' = result
             [] branch = "mock" ->
                  /\ result' = Return(run_mock_analysis(prompt))
                  /\ pc' = "done"
                  /\ log' = log
    /\ UNCHANGED <<env, attempt_number, waits, request_outcome, console, exit_code>>
    /\ UNCHANGED <<apivars, dbvars, storevars, menuvars>>

\* AgentService.run_analysis called on the service at hand.
run_analysis(prompt, model, provider) ==
    /\ run_analysis_start(prompt, model, provider, openai_client, settings)
    /\ UNCHANGED <<settings, openai_client, command>>

\* The command "agent run": a new AgentService is built from get_settings()
\* and its run_analysis is called.
agent_run(prompt, model, provider) ==
    /\ settings' = get_settings(settings, env)
    /\ openai_client' = AgentServiceInit(settings')
    /\ command' = "agent run"
    /\ run_analysis_start(prompt, model, provider, openai_client', settings')

\* _run_openai_analysis: create() raises exc.
openai_create_raises(exc) ==
    /\ pc = "openai_await"
    /\ log' = Settle(log, exc, None)
    /\ result' = openai_on_exception(call.prompt, exc)
    /\ pc' = "done"
    /\ UNCHANGED <<env, settings, openai_client, call, attempt_number, waits,
                   request_outcome, command, console, exit_code>>
    /\ UNCHANGED <<apivars, dbvars, storevars, menuvars>>

\* _run_openai_analysis: create() returns a reply with the given content.
openai_create_returns(message) ==
    /\ pc = "openai_await"
    /\ log' = Settle(log, "ok", message)
    /\ result' = openai_normalise(message, call.model)
    /\ pc' = "done"
    /\ UNCHANGED <<env, settings, openai_client, call, attempt_number, waits,
                   request_outcome, command, console, exit_code>>
    /\ UNCHANGED <<apivars, dbvars, storevars, menuvars>>

\* Variant of the failure step that sends the POST through a retry loop of
\* MaxAttempts attempts before it falls back.
ollama_post_raises_retrying(exc) ==
    /\ pc = "ollama_await"
    /\ IF exc \in HTTPErrors /\ Len(log) < MaxAttempts
       THEN /\ log' = Send(Settle(log, exc, None), "POST /api/generate",
                           ollama_base_url(settings))
            /\ UNCHANGED <<pc, result>>
       ELSE /\ log' = Settle(log, exc, None)
            /\ result' = ollama_on_exception(call.prompt, exc)
            /\ pc' = "done"
    /\ UNCHANGED <<env, settings, openai_client, call, attempt_number, waits,
                   request_outcome, command, console, exit_code>>
    /\ UNCHANGED <<apivars, dbvars, storevars, menuvars>>

\* _run_ollama_analysis: the POST, or raise_for_status(), raises exc.
ollama_post_raises(exc) ==
    /\ pc = "ollama_await"
    /\ log' = Settle(log, exc, None)
    /\ result' = ollama_on_exception(call.prompt, exc)
    /\ pc' = "done"
    /\ UNCHANGED <<env, settings, openai_client, call, attempt_number, waits,
                   request_outcome, command, console, exit_code>>
    /\ UNCHANGED <<apivars, dbvars, storevars, menuvars>>

\* _run_ollama_analysis: the POST returns a success status with body.
ollama_post_returns(body) ==
    /\ pc = "ollama_await"
    /\ log' = Settle(log, "ok", raw_response(body))
    /\ result' = ollama_normalise(body, call.model, call.prompt)
    /\ pc' = "done"
    /\ UNCHANGED <<env, settings, openai_client, call, attempt_number, waits,
                   request_outcome, command, console, exit_code>>
    /\ UNCHANGED <<apivars, dbvars, storevars, menuvars>>

\* AgentService.chat of a service with the given client, up to its await on
\* the network, or to its return when there is no client.
chat_start(message, client) ==
    /\ pc = "idle"
    /\ call' = [op |-> "chat", message |-> message]
    /\ IF ~client
       THEN /\ result' = Return(ChatUnavailable)
            /\ pc' = "done"
            /\ log' = log
       ELSE /\ log' = Send(log, "openai.chat.completions.create", None)
            /\ pc' = "chat_await"
            /\ result' = result
    /\ UNCHANGED <<env, attempt_number, waits, request_outcome, console, exit_code>>
    /\ UNCHANGED <<apivars, dbvars, storevars, menuvars>>

\* AgentService.chat called on the service at hand.
chat(message) ==
    /\ chat_start(message, openai_client)
    /\ UNCHANGED <<settings, openai_client, command>>

\* The command "agent chat": a new AgentService is built and chat is called.
agent_chat(message) ==
    /\ settings' = get_settings(settings, env)
    /\ openai_client' = AgentServiceInit(settings')
    /\ command' = "agent chat"
    /\ chat_start(message, openai_client')

\* chat: create() raises exc.
chat_create_raises(exc) ==
    /\ pc = "chat_await"
    /\ log' = Settle(log, exc, None)
    /\ result' = chat_on_exception(exc)
    /\ pc' = "done"
    /\ UNCHANGED <<env, settings, openai_client, call, attempt_number, waits,
                   request_outcome, command, console, exit_code>>
    /\ UNCHANGED <<apivars, dbvars, storevars, menuvars>>

\* chat: create() returns a reply with the given content.
chat_create_returns(content) ==
    /\ pc = "chat_await"
    /\ log' = Settle(log, "ok", content)
    /\ result' = Return(chat_reply(content))
    /\ pc' = "done"
    /\ UNCHANGED <<env, settings, openai_client, call, attempt_number, waits,
                   request_outcome, command, console, exit_code>>
    /\ UNCHANGED <<apivars, dbvars, storevars, menuvars>>

\* A caller of OllamaService._request (check_connection, list_models,
\* pull_model, run_model) of a service built from the settings s enters
\* _request, which checks the base URL and starts the retry loop.
request_start(c, s) ==
    /\ pc = "idle"
    /\ call' = c
    /\ IF ~Truthy(ollama_base_url(s))
       THEN /\ request_outcome' = Raise("ValueError")
            /\ result' = caller_on_raise(c.op, "ValueError")
            /\ pc' = "done"
            /\ attempt_number' = attempt_number
       ELSE /\ attempt_number' = 1
            /\ pc' = "request_send"
            /\ UNCHANGED <<request_outcome, result>>
    /\ UNCHANGED <<env, openai_client, log, waits, console, exit_code>>
    /\ UNCHANGED <<apivars, dbvars, storevars, menuvars>>

\* A method of the OllamaService at hand is called.
request_enter(c) ==
    /\ request_start(c, settings)
    /\ UNCHANGED <<settings, command>>

check_connection == request_enter([op |-> "check_connection"])

list_models == request_enter([op |-> "list_models"])

pull_model(model) == request_enter([op |-> "pull_model", model |-> model])

run_model(prompt, model) ==
    request_enter([op |-> "run_model", prompt |-> prompt, model |-> model])

\* A command of the llm group: a new OllamaService is built from
\* get_settings() and its method is called.
llm_command(cmd, c) ==
    /\ settings' = get_settings(settings, env)
    /\ command' = cmd
    /\ request_start(c, settings')

llm_list == llm_command("llm list", [op |-> "list_models"])

llm_pull(model) == llm_command("llm pull", [op |-> "pull_model", model |-> model])

llm_check == llm_command("llm check", [op |-> "check_connection"])

\* _execute_request: the attempt sends its request.
execute_request ==
    /\ pc = "request_send"
    /\ log' = Send(log, request_line(call.op), ollama_base_url(settings))
    /\ pc' = "request_await"
    /\ UNCHANGED <<env, settings, openai_client, call, attempt_number, waits,
                   request_outcome, result, command, console, exit_code>>
    /\ UNCHANGED <<apivars, dbvars, storevars, menuvars>>

\* The attempt raises exc (from client.request or raise_for_status()); the
\* retry policy sleeps and goes on, or raises exc to the caller.
execute_request_raises(exc) ==
    /\ pc = "request_await"
    /\ log' = Settle(log, exc, None)
    /\ IF retry_policy(exc, attempt_number) = "retry"
       THEN /\ waits' = Append(waits, wait_exponential(attempt_number))
            /\ pc' = "request_wait"
            /\ UNCHANGED <<request_outcome, result>>
       ELSE /\ request_outcome' = Raise(exc)
            /\ result' = caller_on_raise(call.op, exc)
            /\ pc' = "done"
            /\ waits' = waits
    /\ UNCHANGED <<env, settings, openai_client, call, attempt_number, command,
                   console, exit_code>>
    /\ UNCHANGED <<apivars, dbvars, storevars, menuvars>>

\* The attempt returns a response: _request returns it to its caller.
execute_request_returns(body) ==
    /\ pc = "request_await"
    /\ body \in ResponseBodies(call.op)
    /\ log' = Settle(log, "ok", None)
    /\ request_outcome' = Return(body)
    /\ result' = caller_on_return(call.op, body)
    /\ pc' = "done"
    /\ UNCHANGED <<env, settings, openai_client, call, attempt_number, waits,
                   command, console, exit_code>>
    /\ UNCHANGED <<apivars, dbvars, storevars, menuvars>>

\* The wait between two attempts has elapsed.
wait_elapsed ==
    /\ pc = "request_wait"
    /\ attempt_number' = attempt_number + 1
    /\ pc' = "request_send"
    /\ UNCHANGED <<env, settings, openai_client, call, log, waits, request_outcome,
                   result, command, console, exit_code>>
    /\ UNCHANGED <<apivars, dbvars, storevars, menuvars>>

\* The service call of a CLI command has ended: the command prints its
\* report and exits.
command_exit ==
    /\ pc = "done"
    /\ command # None
    /\ console' = command_outcome(command, call, result).console
    /\ exit_code' = command_outcome(command, call, result).exit_code
    /\ pc' = "exited"
    /\ UNCHANGED <<env, settings, openai_client, call, attempt_number, log, waits,
                   request_outcome, result, command>>
    /\ UNCHANGED <<apivars, dbvars, storevars, menuvars>>

\* The caller has taken the result, or the command has exited; the next
\* call can start.
finish ==
    /\ \/ pc = "done" /\ command = None
       \/ pc = "exited"
    /\ pc' = "idle"
    /\ call' = NoCall
    /\ attempt_number' = 0
    /\ log' = <<>>
    /\ waits' = <<>>
    /\ request_outcome' = NoResult
    /\ result' = NoResult
    /\ command' = None
    /\ console' = <<>>
    /\ exit_code' = None
    /\ UNCHANGED <<env, settings, openai_client>>
    /\ UNCHANGED <<apivars, dbvars, storevars, menuvars>>

\* A request the dependencies of the route have rejected: the handler's body
\* does not run.
rejected(current_user) ==
    /\ response' = current_user.raised
    /\ crud_calls' = <<>>
    /\ items' = items

\* Variant of GET /items whose signature has no current_user dependency.
read_items_without_user(credentials, skip, limit) ==
    /\ request' = [route |-> "read_items", credentials |-> credentials,
                   skip |-> skip, limit |-> limit]
    /\ crud_calls' = <<"get_multi">>
    /\ response' = JSONResponse(crud_item_get_multi(items, skip, limit))
    /\ items' = items
    /\ UNCHANGED <<svcvars, dbvars, storevars, menuvars>>

\* GET /items
read_items(credentials, skip, limit) ==
    LET current_user == Depends(get_current_active_user(credentials))
    IN  /\ request' = [route |-> "read_items", credentials |-> credentials,
                       skip |-> skip, limit |-> limit]
        /\ IF raises(current_user)
           THEN rejected(current_user)
           ELSE /\ crud_calls' = <<"get_multi">>
                /\ response' = JSONResponse(crud_item_get_multi(items, skip, limit))
                /\ items' = items
        /\ UNCHANGED <<svcvars, dbvars, storevars, menuvars>>

\* POST /items
create_item(credentials, item_in) ==
    LET current_user == Depends(get_current_active_user(credentials))
    IN  /\ request' = [route |-> "create_item", credentials |-> credentials,
                       item_in |-> item_in]
        /\ IF raises(current_user)
           THEN rejected(current_user)
           ELSE LET created == crud_item_create_with_owner(items, item_in,
                                                           current_user.user)
                IN  /\ created.item.id <= MaxItemId
                    /\ crud_calls' = <<"create_with_owner">>
                    /\ items' = created.db
                    /\ response' = JSONResponse(created.item)
        /\ UNCHANGED <<svcvars, dbvars, storevars, menuvars>>

\* Variant of PUT /items/{id} that lets only the owner update the item.
update_item_owner_only(credentials, id, item_in) ==
    LET current_user == Depends(get_current_active_user(credentials))
    IN  /\ request' = [route |-> "update_item", credentials |-> credentials,
                       id |-> id, item_in |-> item_in]
        /\ IF raises(current_user)
           THEN rejected(current_user)
           ELSE LET item == crud_item_get(items, id)
                IN  IF not_(item)
                    THEN /\ crud_calls' = <<"get">>
                         /\ response' = HTTPException(404, "Item not found")
                         /\ items' = items
                    ELSE IF item.owner_id # current_user.user
                    THEN /\ crud_calls' = <<"get">>
                         /\ response' = HTTPException(400, "Not enough permissions")
                         /\ items' = items
                    ELSE LET updated == crud_item_update(items, item, item_in)
                         IN  /\ crud_calls' = <<"get", "update">>
                             /\ items' = updated.db
                             /\ response' = JSONResponse(updated.item)
        /\ UNCHANGED <<svcvars, dbvars, storevars, menuvars>>

\* PUT /items/{id}
update_item(credentials, id, item_in) ==
    LET current_user == Depends(get_current_active_user(credentials))
    IN  /\ request' = [route |-> "update_item", credentials |-> credentials,
                       id |-> id, item_in |-> item_in]
        /\ IF raises(current_user)
           THEN rejected(current_user)
           ELSE LET item == crud_item_get(items, id)
                IN  IF not_(item)
                    THEN /\ crud_calls' = <<"get">>
                         /\ response' = HTTPException(404, "Item not found")
                         /\ items' = items
                    ELSE LET updated == crud_item_update(items, item, item_in)
                         IN  /\ crud_calls' = <<"get", "update">>
                             /\ items' = updated.db
                             /\ response' = JSONResponse(updated.item)
        /\ UNCHANGED <<svcvars, dbvars, storevars, menuvars>>

\* GET /items/{id}
read_item(credentials, id) ==
    LET current_user == Depends(get_current_active_user(credentials))
    IN  /\ request' = [route |-> "read_item", credentials |-> credentials, id |-> id]
        /\ IF raises(current_user)
           THEN rejected(current_user)
           ELSE LET item == crud_item_get(items, id)
                IN  /\ crud_calls' = <<"get">>
                    /\ items' = items
                    /\ response' = IF not_(item)
                                   THEN HTTPException(404, "Item not found")
                                   ELSE JSONResponse(item)
        /\ UNCHANGED <<svcvars, dbvars, storevars, menuvars>>

\* Variant of DELETE /items/{id} that removes without looking the item up.
delete_item_unchecked(credentials, id) ==
    LET current_user == Depends(get_current_active_user(credentials))
    IN  /\ request' = [route |-> "delete_item", credentials |-> credentials,
                       id |-> id]
        /\ IF raises(current_user)
           THEN rejected(current_user)
           ELSE LET removed == crud_item_remove(items, id)
                IN  /\ crud_calls' = <<"remove">>
                    /\ items' = removed.db
                    /\ response' = JSONResponse(removed.item)
        /\ UNCHANGED <<svcvars, dbvars, storevars, menuvars>>

\* DELETE /items/{id}
delete_item(credentials, id) ==
    LET current_user == Depends(get_current_active_user(credentials))
    IN  /\ request' = [route |-> "delete_item", credentials |-> credentials,
                       id |-> id]
        /\ IF raises(current_user)
           THEN rejected(current_user)
           ELSE LET item == crud_item_get(items, id)
                IN  IF not_(item)
                    THEN /\ crud_calls' = <<"get">>
                         /\ response' = HTTPException(404, "Item not found")
                         /\ items' = items
                    ELSE LET removed == crud_item_remove(items, id)
                         IN  /\ crud_calls' = <<"get", "remove">>
                             /\ items' = removed.db
                             /\ response' = JSONResponse(removed.item)
        /\ UNCHANGED <<svcvars, dbvars, storevars, menuvars>>

\* The command "db init".
db_init(drop_existing) ==
    /\ users' = initialize(users, items, drop_existing).users
    /\ items' = initialize(users, items, drop_existing).items
    /\ UNCHANGED <<svcvars, request, response, crud_calls, storevars, menuvars>>

\* The command "db seed".
db_seed ==
    /\ users' = seed_sample_data(users, items).users
    /\ items' = seed_sample_data(users, items).items
    /\ UNCHANGED <<svcvars, request, response, crud_calls, storevars, menuvars>>

\* POST /users/open: a user registers with an email no stored user has.
users_open(user_in) ==
    /\ \A i \in DOMAIN users : users[i].email # user_in.email
    /\ users' = crud_user_create(users, user_in).db
    /\ UNCHANGED <<svcvars, apivars, storevars, menuvars>>

\* ItemStorage(db_path): the store is opened on a database file.
ItemStorage_init(table) ==
    /\ storage_call = NoCall
    /\ store' = table
    /\ storage_call' = [op |-> "__init__"]
    /\ storage_result' = NoResult
    /\ UNCHANGED <<svcvars, apivars, dbvars, menuvars>>

\* ItemStorage.create_item
ItemStorage_create_item(item, owner_id) ==
    LET id == ItemStorage_next_id(store)
    IN  /\ storage_call # NoCall
        /\ storage_call' = [op |-> "create_item", item |-> item, owner_id |-> owner_id]
        /\ IF id.kind = "raise"
           THEN /\ storage_result' = id
                /\ store' = store
           ELSE LET record == [id |-> id.value, title |-> item.title,
                               description |-> item.description,
                               owner_id |-> owner_id, created_at |-> "utcnow",
                               updated_at |-> "utcnow"]
                IN  /\ id.value <= MaxStoreId
                    /\ store' = Table_insert(store, to_row(record))
                    /\ storage_result' = to_schema(record)
        /\ UNCHANGED <<svcvars, apivars, dbvars, menuvars>>

\* ItemStorage.get_item
ItemStorage_get_item(item_id) ==
    LET row == Table_get(store, item_id)
    IN  /\ storage_call # NoCall
        /\ storage_call' = [op |-> "get_item", item_id |-> item_id]
        /\ storage_result' = IF row.kind = "raise" THEN Return(None)
                             ELSE row_to_schema(row.value)
        /\ store' = store
        /\ UNCHANGED <<svcvars, apivars, dbvars, menuvars>>

\* ItemStorage.update_item
ItemStorage_update_item(item_id, updates) ==
    LET changes == ("updated_at" :> "utcnow") @@ updates
        updated == Table_update(store, item_id, changes)
    IN  /\ storage_call # NoCall
        /\ storage_call' = [op |-> "update_item", item_id |-> item_id]
        /\ store' = updated.table
        /\ storage_result' = greater_than_zero(updated.result)
        /\ UNCHANGED <<svcvars, apivars, dbvars, menuvars>>

\* ItemStorage.delete_item
ItemStorage_delete_item(item_id) ==
    LET deleted == Table_delete(store, item_id)
    IN  /\ storage_call # NoCall
        /\ storage_call' = [op |-> "delete_item", item_id |-> item_id]
        /\ store' = deleted.table
        /\ storage_result' = greater_than_zero(deleted.result)
        /\ UNCHANGED <<svcvars, apivars, dbvars, menuvars>>

\* The command "menu" starts: the loop prints the table and prompts.
interactive_menu ==
    /\ menu_pc = "closed"
    /\ menu_console' = Append(menu_console, MenuTable)
    /\ menu_pc' = "prompt"
    /\ UNCHANGED <<selection, menu_ran, menu_status>>
    /\ UNCHANGED <<svcvars, apivars, dbvars, storevars>>

\* A line is read at the prompt and the loop body runs up to the call of the
\* action, to the next prompt, or to sys.exit(0).
menu_select(line) ==
    LET key == strip(typer_prompt(line, <<"5">>))
    IN  /\ menu_pc = "prompt"
        /\ TablesShown(menu_console) <= MaxMenuRounds
        /\ selection' = line
        /\ CASE menu_branch(key) = "continue" ->
                  /\ menu_console' = menu_console \o <<MenuInvalid, MenuTable>>
                  /\ UNCHANGED <<menu_pc, menu_ran, menu_status>>
             [] menu_branch(key) = "exit" ->
                  /\ menu_console' = Append(menu_console, MenuExit)
                  /\ menu_status' = 0
                  /\ menu_pc' = "exited"
                  /\ UNCHANGED menu_ran
             [] menu_branch(key) = "call" ->
                  /\ menu_ran' = Append(menu_ran, menu_actions_get(key))
                  /\ menu_pc' = "action"
                  /\ UNCHANGED <<menu_console, menu_status>>
        /\ UNCHANGED <<svcvars, apivars, dbvars, storevars>>

\* The action returns: the loop prints the table and prompts again.
menu_action_returns ==
    /\ menu_pc = "action"
    /\ menu_console' = Append(menu_console, MenuTable)
    /\ menu_pc' = "prompt"
    /\ UNCHANGED <<selection, menu_ran, menu_status>>
    /\ UNCHANGED <<svcvars, apivars, dbvars, storevars>>

\* The action raises: the exception leaves the loop and the process ends.
menu_action_raises(exc) ==
    /\ menu_pc = "action"
    /\ menu_ran[Len(menu_ran)] \in RaisingActions
    /\ exc = "Exit" <=> menu_ran[Len(menu_ran)] = "_menu_run_analysis"
    /\ menu_status' = 1
    /\ menu_pc' = "exited"
    /\ UNCHANGED <<selection, menu_ran, menu_console>>
    /\ UNCHANGED <<svcvars, apivars, dbvars, storevars>>

Next ==
    \/ \E e \in Environments : setenv(e)
    \/ \E p \in Prompts, m \in Models, pr \in Providers : run_analysis(p, m, pr)
    \/ \E p \in Prompts, m \in Models, pr \in Providers : agent_run(p, m, pr)
    \/ \E e \in OpenAIErrors : openai_create_raises(e)
    \/ \E t \in Texts \cup {None} : openai_create_returns(t)
    \/ \E e \in HTTPErrors \cup OtherErrors : ollama_post_raises(e)
    \/ \E b \in GenerateBodies : ollama_post_returns(b)
    \/ \E m \in Messages : chat(m)
    \/ \E m \in Messages : agent_chat(m)
    \/ \E e \in OpenAIErrors : chat_create_raises(e)
    \/ \E t \in ChatContents : chat_create_returns(t)
    \/ check_connection
    \/ list_models
    \/ \E m \in Models : pull_model(m)
    \/ \E p \in Prompts, m \in Models : run_model(p, m)
    \/ llm_list
    \/ \E m \in Models : llm_pull(m)
    \/ llm_check
    \/ execute_request
    \/ \E e \in HTTPErrors \cup OtherErrors : execute_request_raises(e)
    \/ \E b \in TagsBodies \cup RunModelBodies : execute_request_returns(b)
    \/ wait_elapsed
    \/ command_exit
    \/ finish

Spec == Init /\ [][Next]_vars

\* The requests a client sends to the items router.
NextApi ==
    \/ \E c \in Credentials, sk \in Skips, l \in Limits : read_items(c, sk, l)
    \/ \E c \in Credentials, i \in ItemCreates : create_item(c, i)
    \/ \E c \in Credentials, id \in PathIds, u \in ItemUpdates : update_item(c, id, u)
    \/ \E c \in Credentials, id \in PathIds : read_item(c, id)
    \/ \E c \in Credentials, id \in PathIds : delete_item(c, id)

\* The items routes read none of the provider settings: one environment.
InitApi == Init /\ env = EmptyDict

SpecApi == InitApi /\ [][NextApi]_vars

\* The tokens of the active users the user table holds.
StoredUserTokens ==
    {c \in DOMAIN TokenSubject :
        /\ TokenSubject[c] \in DOMAIN users
        /\ Users[TokenSubject[c]].is_active}

\* The database commands of the CLI, registration, and item requests of the
\* stored users.
NextSeed ==
    \/ \E d \in BOOLEAN : db_init(d)
    \/ db_seed
    \/ \E u \in UserCreates : users_open(u)
    \/ \E c \in StoredUserTokens, i \in ItemCreates : create_item(c, i)
    \/ \E c \in StoredUserTokens, id \in PathIds, u \in ItemUpdates : update_item(c, id, u)
    \/ \E c \in StoredUserTokens, id \in PathIds : delete_item(c, id)

SpecSeed == InitApi /\ [][NextSeed]_vars

\* The calls on one ItemStorage.
NextStorage ==
    \/ \E t \in StoredTables : ItemStorage_init(t)
    \/ \E i \in ItemCreates, o \in OwnerIds : ItemStorage_create_item(i, o)
    \/ \E id \in 1..MaxStoreId : ItemStorage_get_item(id)
    \/ \E id \in 1..MaxStoreId, u \in StorageUpdates : ItemStorage_update_item(id, u)
    \/ \E id \in 1..MaxStoreId : ItemStorage_delete_item(id)

SpecStorage == Init /\ [][NextStorage]_vars

\* One run of the command "menu".
NextMenu ==
    \/ interactive_menu
    \/ \E l \in InputLines : menu_select(l)
    \/ menu_action_returns
    \/ \E e \in MenuErrors : menu_action_raises(e)

SpecMenu == Init /\ [][NextMenu]_vars

----------------------------------------------------------------------------
(* Properties *)

\* The call in progress has ended (and its command, if any, may have exited).
Ended == pc \in {"done", "exited"}

AnalysisDone == Ended /\ call.op = "run_analysis"

\* C1: run_analysis with provider "mock" returns the canned result:
\* provider "mock", compliance score 0.85, the single fixed violation, an
\* analysis key, and the prompt echoed; every other entry is a constant that
\* depends neither on the prompt nor on the model.
C1_MockResultCanned ==
    (AnalysisDone /\ call.provider = "mock") =>
        /\ result.kind = "return"
        /\ DOMAIN result.value = {"analysis", "violations", "corrective_actions",
                                  "compliance_score", "provider", "model", "prompt"}
        /\ result.value["provider"] = "mock"
        /\ result.value["compliance_score"] = "0.85"
        /\ result.value["violations"] = <<"No critical violations detected">>
        /\ result.value["prompt"] = call.prompt
        /\ result.value["analysis"] =
             "Facility inspection summary with focus on critical food safety checkpoints"
        /\ result.value["corrective_actions"] =
             <<"Continue temperature monitoring protocols">>
        /\ result.value["model"] = "mock-analysis"

C1_Witness ==
    /\ AnalysisDone
    /\ call.provider = "mock"
    /\ call.prompt = "Evaluate hygiene compliance"
    /\ call.model = "llama2:7b"
    /\ result.kind = "return"

\* C2: with provider "openai" and no credential configured, with provider
\* "mock", and with any provider other than "openai" and "ollama",
\* run_analysis returns the mock result for its prompt, raises nothing and
\* issues no network request.
C2_MockPathWithoutNetwork ==
    (/\ AnalysisDone
     /\ \/ call.provider = "openai" /\ ~Truthy(settings.OPENAI_API_KEY)
        \/ call.provider \notin {"openai", "ollama"})
    => /\ result = Return(run_mock_analysis(call.prompt))
       /\ log = <<>>

C2_Witness ==
    /\ AnalysisDone
    /\ call.provider = "openai"
    /\ settings.OPENAI_API_KEY = ""
    /\ result.kind = "return"
    /\ log = <<>>

\* The provider tag of the path that sent the request.
ExecutingProvider ==
    IF log[1].req = "openai.chat.completions.create" THEN "openai" ELSE "ollama"

\* The remote call of the analysis in progress answered with a text.
AnalysisAnswered ==
    /\ AnalysisDone
    /\ Len(log) = 1
    /\ log[1].res = "ok"
    /\ log[1].text # None

\* The local endpoint is unreachable: every request sent so far has failed
\* with a transport error.
LocalUnreachable ==
    /\ log # <<>>
    /\ \A i \in DOMAIN log : log[i].res \in TransportErrors

C4_NeverRaisesAndTagged ==
    AnalysisDone =>
        /\ result.kind = "return"
        /\ {"provider", "model"} \subseteq DOMAIN result.value

\* C5: on the hosted and on the local path, when the remote text is a JSON
\* object, the result is that object with provider set to the tag of the path
\* that ran and model set to the requested model, whatever provider or model
\* entry the object had.
C5_ObjectTagsOverwritten ==
    (AnalysisAnswered /\ JsonLoads(log[1].text).type = "dict") =>
        result = Return(("provider" :> ExecutingProvider) @@ ("model" :> call.model)
                        @@ JsonLoads(log[1].text).items)

C7_HostedSingleCallFallsBack ==
    (/\ call.op = "run_analysis"
     /\ call.provider = "openai"
     /\ Truthy(settings.OPENAI_API_KEY))
    => /\ Len(log) = 1
       /\ log[1].req = "openai.chat.completions.create"
       /\ (Ended /\ log[1].res \in OpenAIErrors) =>
             /\ result = Return(run_mock_analysis(call.prompt))
             /\ result.value["provider"] = "mock"

C7_Witness ==
    /\ AnalysisDone
    /\ call.provider = "openai"
    /\ Truthy(settings.OPENAI_API_KEY)
    /\ log[1].res = "RateLimitError"
    /\ result.kind = "return"

InRequest == call.op \in RequestOps

\* C8: check_connection raises nothing; it returns true exactly when a
\* GET /api/tags attempt of its _request succeeded, and false when every
\* attempt failed or another exception ended the request.
C8_CheckConnectionNeverRaises ==
    (Ended /\ call.op = "check_connection") =>
        /\ result.kind = "return"
        /\ result.value \in BOOLEAN
        /\ result.value <=> (\E i \in DOMAIN log : /\ log[i].req = "GET /api/tags"
                                                   /\ log[i].res = "ok")
        /\ (~result.value) <=> request_outcome.kind = "raise"
        /\ \A i \in DOMAIN log : log[i].req = "GET /api/tags"

C8_Witness ==
    /\ Ended
    /\ call.op = "check_connection"
    /\ Len(log) = MaxAttempts
    /\ \A i \in DOMAIN log : log[i].res \in HTTPErrors
    /\ result = Return(FALSE)

\* C9: _request makes at most 3 attempts, one after another: never two in
\* flight, attempt k+1 only after attempt k failed and its wait elapsed, no
\* attempt after a successful one; it returns the response of the first
\* successful attempt, and when all 3 attempts fail it raises the error of
\* the third.
C9_SequentialBoundedAttempts ==
    InRequest =>
        /\ Len(log) <= MaxAttempts
        /\ InFlight <= 1
        /\ \A i \in DOMAIN log : i < Len(log) => log[i].res \in HTTPErrors
        /\ pc = "request_send" => Len(log) = attempt_number - 1 /\ InFlight = 0
        /\ pc = "request_await" => Len(log) = attempt_number /\ InFlight = 1
        /\ pc = "request_wait" => Len(log) = attempt_number /\ InFlight = 0
        /\ pc \in {"request_send", "request_await"} => Len(waits) = attempt_number - 1
        /\ pc = "request_wait" => Len(waits) = attempt_number
        /\ (Ended /\ log # <<>> /\ log[Len(log)].res = "ok") =>
              /\ request_outcome.kind = "return"
              /\ request_outcome.value \in ResponseBodies(call.op)
        /\ (Ended /\ Len(log) = MaxAttempts /\ log[MaxAttempts].res # "ok") =>
              request_outcome = Raise(log[MaxAttempts].res)

C9_Witness ==
    /\ Ended
    /\ InRequest
    /\ Len(log) = MaxAttempts
    /\ log[1].res = "ConnectError"
    /\ log[2].res = "ConnectError"
    /\ log[3].res = "ReadTimeout"
    /\ request_outcome = Raise("ReadTimeout")

\* C10: an HTTP error status on an attempt of _request is handled like a
\* transport error: the attempt has failed, the request goes on to the next
\* attempt when it was not the third, and the status error is raised to the
\* caller when it was the third.
C10_StatusErrorRetried ==
    InRequest =>
        \A i \in DOMAIN log :
            log[i].res \in StatusErrors =>
                /\ i < MaxAttempts =>
                      \/ pc \in {"request_wait", "request_send"} /\ Len(waits) = i
                      \/ Len(log) > i
                /\ i = MaxAttempts =>
                      Ended /\ request_outcome = Raise(log[i].res)

C10_Witness ==
    /\ Ended
    /\ InRequest
    /\ Len(log) = MaxAttempts
    /\ \A i \in DOMAIN log : log[i].res = "HTTPStatusError"
    /\ request_outcome = Raise("HTTPStatusError")
    /\ Len(waits) = MaxAttempts - 1

\* Every attempt of the request in progress has failed with an HTTP error.
AllAttemptsFailed ==
    /\ Len(log) = MaxAttempts
    /\ \A i \in DOMAIN log : log[i].res \in HTTPErrors

\* C11: the waits of _request are 1 second before the 2nd attempt and 2
\* seconds before the 3rd, never more than the 10 second cap; there is no
\* wait after the last failed attempt, so a request that fails 3 times has
\* waited exactly twice.
C11_BackoffSchedule ==
    InRequest =>
        /\ waits \in {<<>>, <<1>>, <<1, 2>>}
        /\ \A i \in DOMAIN waits : waits[i] <= 10
        /\ Len(waits) = (IF pc = "request_wait" THEN attempt_number
                         ELSE IF attempt_number = 0 THEN 0 ELSE attempt_number - 1)
        /\ (Ended /\ AllAttemptsFailed) => waits = <<1, 2>>

C11_Witness ==
    /\ Ended
    /\ InRequest
    /\ AllAttemptsFailed
    /\ waits = <<1, 2>>

\* C12: chat raises nothing. Without a credential it returns the fixed
\* "unavailable" string and sends no request; with a credential it sends
\* exactly one chat-completion call and returns the content of the reply
\* (the empty string when there is none), or the fixed failure string when
\* the call raises.
C12_ChatNeverRaises ==
    call.op = "chat" =>
        IF ~Truthy(settings.OPENAI_API_KEY)
        THEN /\ log = <<>>
             /\ result = Return("AI chat is unavailable. Configure an OpenAI API key to enable this feature.")
        ELSE /\ Len(log) = 1
             /\ log[1].req = "openai.chat.completions.create"
             /\ Ended =>
                   /\ result.kind = "return"
                   /\ log[1].res \in OpenAIErrors =>
                         result.value = "Unable to complete chat request."
                   /\ (log[1].res = "ok" /\ log[1].text \in {None, ""}) =>
                         result.value = ""
                   /\ (log[1].res = "ok" /\ log[1].text \notin {None, ""}) =>
                         result.value = log[1].text

C12_Witness ==
    /\ Ended
    /\ call.op = "chat"
    /\ Len(log) = 1
    /\ log[1].res = "AuthenticationError"
    /\ result = Return("Unable to complete chat request.")

\* The call in progress goes to the local provider.
LocalCall ==
    \/ InRequest
    \/ call.op = "run_analysis" /\ call.provider = "ollama"

\* C13: when no base URL is configured, the local provider sends its
\* requests to http://localhost:11434; the "Ollama base URL is not
\* configured" error (a ValueError) is never raised.
C13_DefaultBaseUrl ==
    (LocalCall /\ settings.OLLAMA_BASE_URL = None) =>
        /\ result # Raise("ValueError")
        /\ request_outcome # Raise("ValueError")
        /\ \A i \in DOMAIN log : log[i].base = "http://localhost:11434"
        /\ Ended => log # <<>>

C13_Witness ==
    /\ Ended
    /\ call.op = "run_analysis"
    /\ call.provider = "ollama"
    /\ settings.OLLAMA_BASE_URL = None
    /\ log[1].base = "http://localhost:11434"
    /\ log[1].res = "ok"

\* The remote call of the analysis in progress has failed.
BackendFailed ==
    /\ Len(log) = 1
    /\ log[1].res \in OpenAIErrors \cup HTTPErrors \cup OtherErrors

\* C14: "agent run" hides the failures of the providers: when the hosted or
\* the local call fails, the command prints "Analysis complete" with the mock
\* result and exits with 0; it prints "Analysis failed" and exits with 1
\* exactly when run_analysis itself raises.
C14_AgentRunHidesProviderFailure ==
    (pc = "exited" /\ command = "agent run") =>
        /\ BackendFailed =>
              /\ exit_code = 0
              /\ Len(console) = 2
              /\ console[1].text = "Analysis complete"
              /\ console[2].data = run_mock_analysis(call.prompt)
        /\ result.kind = "return" =>
              /\ exit_code = 0
              /\ console[1].text = "Analysis complete"
              /\ console[2].data = result.value
        /\ result.kind = "raise" =>
              /\ exit_code = 1
              /\ Len(console) = 1
              /\ console[1].text = "Analysis failed: " \o result.exc

C14_Witness ==
    /\ pc = "exited"
    /\ command = "agent run"
    /\ call.provider = "ollama"
    /\ log[1].res = "HTTPStatusError"
    /\ exit_code = 0
    /\ console[1].text = "Analysis complete"

\* C15: get_settings reads the configuration once: the Settings instance,
\* and with it the client every AgentService builds from it, never changes,
\* whatever happens to the environment afterwards.
C15_SettingsReadOnce ==
    [][settings' = settings /\ openai_client' = openai_client]_vars

\* A hosted call made by a service that "agent run" built after
\* OPENAI_API_KEY had been removed from the environment.
C15_Witness ==
    /\ command = "agent run"
    /\ "OPENAI_API_KEY" \notin DOMAIN env
    /\ settings.OPENAI_API_KEY = "sk-test"
    /\ Len(log) = 1
    /\ log[1].req = "openai.chat.completions.create"

\* C18: an attempt of _request that fails with an exception that is not an
\* HTTP error is not retried: it is the last attempt, no wait follows it and
\* _request raises that exception; when it is the first attempt, _request
\* has made exactly one attempt.
C18_OtherExceptionNotRetried ==
    InRequest =>
        \A i \in DOMAIN log :
            log[i].res \in OtherErrors =>
                /\ i = Len(log)
                /\ Ended
                /\ request_outcome = Raise(log[i].res)
                /\ Len(waits) = i - 1

C18_Witness ==
    /\ Ended
    /\ InRequest
    /\ Len(log) = 1
    /\ log[1].res = "InvalidURL"
    /\ request_outcome = Raise("InvalidURL")
    /\ waits = <<>>

\* C19: list_models and pull_model let the error of _request out unchanged
\* (after 3 failed attempts, the error of the third); "llm list" and
\* "llm pull" then print their failure message and exit with 1; when the
\* request succeeds, list_models returns the models field of the body, or an
\* empty list when the body has none.
C19_ListAndPullPropagate ==
    (Ended /\ call.op \in {"list_models", "pull_model"}) =>
        /\ request_outcome.kind = "raise" => result = Raise(request_outcome.exc)
        /\ AllAttemptsFailed => result = Raise(log[MaxAttempts].res)
        /\ (pc = "exited" /\ result.kind = "raise") =>
              /\ exit_code = 1
              /\ Len(console) = 1
              /\ command = "llm list" =>
                    console[1].text = "Failed to list models: " \o result.exc
              /\ command = "llm pull" =>
                    console[1].text = "Model download failed: " \o result.exc
        /\ (/\ call.op = "list_models"
            /\ request_outcome.kind = "return"
            /\ request_outcome.value.valid)
           => result = Return(IF "models" \in DOMAIN request_outcome.value.json
                              THEN request_outcome.value.json["models"]
                              ELSE <<>>)

C19_Witness ==
    /\ pc = "exited"
    /\ command = "llm list"
    /\ AllAttemptsFailed
    /\ log[3].res = "ReadTimeout"
    /\ result = Raise("ReadTimeout")
    /\ exit_code = 1

\* C20: "llm check" reports one outcome: "Ollama service reachable" and exit
\* status 0 when check_connection returns true; "Ollama service unavailable"
\* alone and exit status 1 when it returns false.
C20_LlmCheckSingleOutcome ==
    (pc = "exited" /\ command = "llm check" /\ result.kind = "return") =>
        IF result.value
        THEN /\ exit_code = 0
             /\ Len(console) = 1
             /\ console[1].text = "Ollama service reachable"
        ELSE /\ exit_code = 1
             /\ Len(console) = 1
             /\ console[1].text = "Ollama service unavailable"

\* The credentials of the request are those of an active user.
ActiveUser(credentials) ==
    /\ credentials \in DOMAIN TokenSubject
    /\ Users[TokenSubject[credentials]].is_active

\* C16: every items route requires an authenticated active user. A request
\* without valid credentials (no token, or a token that does not validate) is
\* answered 401; a request that is not from an active user gets no success
\* answer; in both cases no crud call is made and the item table is unchanged.
C16_ItemsRoutesRequireActiveUser ==
    [][(request'.route \in ItemRoutes /\ ~ActiveUser(request'.credentials))
        => /\ response'.status_code # 200
           /\ request'.credentials \notin DOMAIN TokenSubject
                => response'.status_code = 401
           /\ crud_calls' = <<>>
           /\ items' = items]_vars

\* A DELETE without credentials, aimed at a stored item, was answered 401 and
\* the item is still stored.
C16_Witness ==
    /\ request.route = "delete_item"
    /\ request.credentials = None
    /\ response.status_code = 401
    /\ request.id \in DOMAIN items

\* C17: for a request of an active user, POST /items answers 200 with the id
\* of a row it has stored; GET, PUT and DELETE on an id answer 200 while a row
\* with that id is stored (DELETE then removes it, GET changes nothing), and
\* answer 404 'Item not found' with the table unchanged when no row has that
\* id, be it deleted or never created.
C17_ItemLifecycle ==
    [][(request'.route \in ItemRoutes /\ ActiveUser(request'.credentials))
        => CASE request'.route = "create_item" ->
                  /\ response'.status_code = 200
                  /\ response'.body.id \notin DOMAIN items
                  /\ response'.body.id \in DOMAIN items'
             [] request'.route \in {"read_item", "update_item", "delete_item"} ->
                  IF request'.id \in DOMAIN items
                  THEN /\ response'.status_code = 200
                       /\ response'.body.id = request'.id
                       /\ request'.route = "read_item" => items' = items
                       /\ request'.route = "update_item" => DOMAIN items' = DOMAIN items
                       /\ request'.route = "delete_item"
                            => DOMAIN items' = DOMAIN items \ {request'.id}
                  ELSE /\ response'.status_code = 404
                       /\ response'.detail = "Item not found"
                       /\ items' = items
             [] OTHER -> response'.status_code = 200]_vars

\* Item 1 was created and, since item 2 is stored without it, deleted; a
\* DELETE of an active user on id 1 was then answered 404 'Item not found'.
C17_Witness ==
    /\ request.route = "delete_item"
    /\ ActiveUser(request.credentials)
    /\ request.id = 1
    /\ 2 \in DOMAIN items
    /\ 1 \notin DOMAIN items
    /\ response.status_code = 404
    /\ response.detail = "Item not found"

\* C24: the items routes make no ownership check. A GET, PUT or DELETE of an
\* active user on a stored id is answered 200 with that item whoever owns it;
\* owner_id is set by POST /items to the id of the requesting user and no
\* request changes the owner_id of a stored row.
C24_NoOwnershipCheck ==
    [][(request'.route \in ItemRoutes /\ ActiveUser(request'.credentials))
        => /\ (request'.route \in {"read_item", "update_item", "delete_item"}
                /\ request'.id \in DOMAIN items)
                => /\ response'.status_code = 200
                   /\ response'.body.owner_id = items[request'.id].owner_id
           /\ request'.route = "create_item"
                => response'.body.owner_id = TokenSubject[request'.credentials]
           /\ \A i \in DOMAIN items \cap DOMAIN items' :
                items'[i].owner_id = items[i].owner_id]_vars

\* User 3 has updated an item that user 1 created.
C24_Witness ==
    /\ request.route = "update_item"
    /\ request.credentials \in DOMAIN TokenSubject
    /\ TokenSubject[request.credentials] = 3
    /\ request.item_in # EmptyDict
    /\ response.status_code = 200
    /\ response.body.owner_id = 1
    /\ response.body.title = "Inspection B"

\* The rows of a table that another table does not hold.
NewRows(after, before) == {after[i] : i \in DOMAIN after \ DOMAIN before}

\* C21: seed_sample_data is idempotent. With a stored user it changes
\* nothing; on an empty database it creates exactly 2 users and 3 items, each
\* item owned by the first user created; seeding a seeded database changes
\* nothing.
C21_SeedIdempotent ==
    LET once  == seed_sample_data(users, items)
        twice == seed_sample_data(once.users, once.items)
    IN  /\ DOMAIN users # {} => once = [users |-> users, items |-> items]
        /\ (DOMAIN users = {} /\ DOMAIN items = {})
             => /\ Cardinality(NewRows(once.users, users)) = 2
                /\ Cardinality(NewRows(once.items, items)) = 3
                /\ \E u \in NewRows(once.users, users) :
                     /\ u.email = sample_users[1].email
                     /\ \A i \in NewRows(once.items, items) : i.owner_id = u.id
        /\ twice = once

\* The database was seeded from empty: it holds the two sample users and the
\* three sample items of the first of them.
C21_Witness ==
    /\ Cardinality(DOMAIN users) = 2
    /\ \A i \in DOMAIN users : \E k \in 1..2 : users[i].email = sample_users[k].email
    /\ Cardinality(DOMAIN items) = 3
    /\ \A i \in DOMAIN items : users[items[i].owner_id].email = sample_users[1].email
    /\ seed_sample_data(users, items) = [users |-> users, items |-> items]

\* C22: each ItemStorage.create_item stores one more row, whose id is the
\* largest stored id plus one, or 1 on an empty table (so the ids of the
\* stored rows stay distinct, and the id of a deleted last row is reused).
C22_CreateAssignsNextId ==
    [][storage_call'.op = "create_item"
        => LET id == IF DOMAIN store = {} THEN 1
                     ELSE SelectMaxId(store).last_id + 1
           IN  /\ DOMAIN store' = DOMAIN store \cup {id}
               /\ \A i \in DOMAIN store : store'[i] = store[i]
               /\ \A i \in DOMAIN store' : store'[i].id = i]_vars

\* C23: create_item returns, without raising, an Item with the assigned id,
\* the title, the description and the owner id, and has inserted its row;
\* get_item returns the Item of a stored row and None for an id without row.
C23_CreateReturnsItem ==
    /\ storage_call.op = "create_item"
         => /\ storage_result.kind = "return"
            /\ storage_result.value.id \in DOMAIN store
            /\ storage_result.value.title = storage_call.item.title
            /\ storage_result.value.description = storage_call.item.description
            /\ storage_result.value.owner_id = storage_call.owner_id
    /\ (storage_call.op = "get_item" /\ storage_call.item_id \in DOMAIN store)
         => /\ storage_result.kind = "return"
            /\ \A f \in SchemaFields :
                 storage_result.value[f] = store[storage_call.item_id][f]
    /\ (storage_call.op = "get_item" /\ storage_call.item_id \notin DOMAIN store)
         => storage_result = Return(None)

\* The lines that select the exit (5, or nothing) and those that select one
\* of the options 1 to 4.
C25_ExitLines == {<<>>, <<"5">>, <<"5", " ">>}

C25_OptionLines == {<<"1">>, <<"2">>, <<"3">>, <<"4">>, <<" ", "3">>}

============================================================================
